---------------------------- MODULE Spec2Model ----------------------------
(***************************************************************************)
(* Restaurant Crawl Planner: the agent module (agent.py: the four tools,   *)
(* chat() and the module-level chat_history, the command-line loop) and    *)
(* the Streamlit page (app.py: the per-session message list, the submit    *)
(* and clear handlers).                                                    *)
(*                                                                         *)
(* A Python str is a sequence of atomic pieces (characters where the code  *)
(* looks inside the string, whole fragments where it only concatenates,    *)
(* compares or tests emptiness); '' is << >>.                              *)
(***************************************************************************)
EXTENDS Integers, Sequences, FiniteSets, TLC

VARIABLES
    chat_history,   \* agent.py:23  the module-level list of (role, content)
    call,           \* what the last chat() call was given, did and returned
    calls,          \* the number of chat() calls made (bounded specifications)
    tool,           \* the tool call in progress: its name, arguments and result
    sessions,       \* app.py: st.session_state of each browser session
    cache,          \* app.py:173  the executor st.cache_resource holds
    ui_event,       \* the event the last run of the page handled
    threads         \* each session's script thread: where it is inside chat()

vars == <<chat_history, call, calls, tool, sessions, cache, ui_event, threads>>
chatVars == <<chat_history, call, calls>>
uiVars == <<sessions, cache, ui_event, threads>>

(***************************************************************************)
(* Python values and strings                                               *)
(***************************************************************************)

\* s[a:b] for 0 <= a <= b (Python clamps b to len(s)).
Slice(s, a, b) == SubSeq(s, a + 1, IF b < Len(s) THEN b ELSE Len(s))

\* `sub in s` for two strings.
Contains(s, sub) ==
    \E i \in 0..(Len(s) - Len(sub)) : SubSeq(s, i + 1, i + Len(sub)) = sub

\* A Python value: t is its type, s its str() rendering.
None == [t |-> "NoneType", s |-> <<"None">>]
PyStr(s) == [t |-> "str", s |-> s]
PyInt(s) == [t |-> "int", s |-> s]

\* bool(v): None, '' and 0 are falsy.
Truthy(v) ==
    CASE v.t = "NoneType" -> FALSE
      [] v.t = "str" -> v.s # << >>
      [] v.t = "int" -> v.s # <<"0">>
      [] OTHER -> TRUE

\* str(v)
Str(v) == v.s

\* c.lower() for one character.
Uppers == <<"A", "B", "C", "D", "E", "F", "G", "H", "I", "J", "K", "L", "M", "N", "O", "P", "Q", "R", "S", "T", "U", "V", "W", "X", "Y", "Z">>
Lowers == <<"a", "b", "c", "d", "e", "f", "g", "h", "i", "j", "k", "l", "m", "n", "o", "p", "q", "r", "s", "t", "u", "v", "w", "x", "y", "z">>
LowerChar(c) ==
    IF \E i \in 1..Len(Uppers) : Uppers[i] = c
    THEN Lowers[CHOOSE i \in 1..Len(Uppers) : Uppers[i] = c]
    ELSE c

\* s.lower()
Lower(s) == [i \in 1..Len(s) |-> LowerChar(s[i])]

(***************************************************************************)
(* chat()  (agent.py:254-326)                                              *)
(***************************************************************************)

\* An exception: its class and str(e).  NoExc: nothing was raised.
NoExc == [cls |-> "none", text |-> << >>]
Exc(cls, text) == [cls |-> cls, text |-> text]

\* The classes `except Exception` catches, among those the model raises.
ExceptionSubclasses == {"Exception", "RuntimeError", "ValueError"}

\* What agent_executor.invoke(input_data) gives back: an exception, None, a
\* dict (has: the key 'output' is present; out: its value), an object (has:
\* hasattr(response, 'output'); out: response.output; self: the object), or
\* any other value (self).
RespRaise(e) == [kind |-> "raise", has |-> FALSE, out |-> None, self |-> None, exc |-> e]
RespNone == [kind |-> "None", has |-> FALSE, out |-> None, self |-> None, exc |-> NoExc]
RespDict(has, out) ==
    [kind |-> "dict", has |-> has, out |-> out,
     self |-> [t |-> "dict", s |-> <<"{...}">>], exc |-> NoExc]
RespObj(has, out) ==
    [kind |-> "object", has |-> has, out |-> out,
     self |-> [t |-> "object", s |-> <<"<AgentFinish>">>], exc |-> NoExc]
RespOther(v) == [kind |-> "other", has |-> FALSE, out |-> None, self |-> v, exc |-> NoExc]
NoResp == [kind |-> "none", has |-> FALSE, out |-> None, self |-> None, exc |-> NoExc]

NoResponsePlaceholder == PyStr(<<"No response was generated. Please try again.">>)
NoOutputPlaceholder ==
    PyStr(<<"I didn't get a proper response. Could you rephrase your question?">>)
TroublePlaceholder ==
    PyStr(<<"I'm having trouble understanding. Could you rephrase your question?">>)
NotSurePlaceholder ==
    PyStr(<<"I'm not sure how to respond to that. Could you rephrase?">>)
NoResponseSentinel == PyStr(<<"No response generated">>)
Apology ==
    PyStr(<<"I'm sorry, I encountered an error processing your request. Please try again.">>)

\* agent.py:310  f"I encountered an error: {str(e)}. Could you please rephrase your question?"
ErrorMessage(e) ==
    PyStr(<<"I encountered an error: ">> \o e.text
            \o <<". Could you please rephrase your question?">>)

\* agent.py:272-280  the messages built from chat_history for the executor.
FormatHistory(h) ==
    LET keep(msg) ==
            \/ msg[1] = "human"
            \/ msg[1] = "assistant" /\ Truthy(msg[2]) /\ msg[2].t = "str"
        kept == SelectSeq(h, keep)
    IN  [i \in 1..Len(kept) |->
            [type |-> IF kept[i][1] = "human" THEN "HumanMessage" ELSE "AIMessage",
             content |-> kept[i][2]]]

\* agent.py:295-304  the value taken from a response that was returned.
ResponseOutput(response) ==
    IF response.kind = "None" THEN NoResponsePlaceholder
    ELSE IF response.kind = "dict" THEN
        LET got == IF response.has THEN response.out ELSE PyStr(<< >>)
        IN  IF ~Truthy(got) THEN NoOutputPlaceholder ELSE got
    ELSE IF response.has /\ response.out # None THEN PyStr(Str(response.out))
    ELSE IF response.kind # "None" THEN PyStr(Str(response.self))
    ELSE PyStr(<<"No response was generated.">>)

\* The check without `or not isinstance(output, str)`.
NormalizeOutput_NoTypeCheck(output) ==
    IF ~Truthy(output) THEN TroublePlaceholder ELSE output

\* agent.py:306-307  an empty or non-string output becomes a placeholder.
NormalizeOutput(output) ==
    IF ~Truthy(output) \/ output.t # "str" THEN TroublePlaceholder ELSE output

\* A handler that names one class only: `except ValueError`.
CaughtByAgentStep_OnlyValueError(e) == e.cls = "ValueError"

\* agent.py:309  the handler around agent_executor.invoke: `except Exception`.
CaughtByAgentStep(e) == e.cls \in ExceptionSubclasses

\* agent.py:323  the handler around the whole body: `except Exception`.
CaughtByChat(e) == e.cls \in ExceptionSubclasses

\* agent.py:292-310  the agent step: output, or the exception that escapes it.
AgentStep(response) ==
    IF response.kind = "raise" THEN
        IF CaughtByAgentStep(response.exc)
        THEN [raised |-> FALSE, output |-> ErrorMessage(response.exc)]
        ELSE [raised |-> TRUE, output |-> None]
    ELSE [raised |-> FALSE, output |-> NormalizeOutput(ResponseOutput(response))]

\* The question recorded before the test, the answer only inside it.
UpdateHistory_AlwaysRecordsInput(h, user_input, output) ==
    IF Truthy(output) /\ output # NoResponseSentinel
    THEN h \o << <<"human", user_input>>, <<"assistant", output>> >>
    ELSE h \o << <<"human", user_input>> >>

\* agent.py:313-315  record the exchange.
UpdateHistory(h, user_input, output) ==
    IF Truthy(output) /\ output # NoResponseSentinel
    THEN h \o << <<"human", user_input>>, <<"assistant", output>> >>
    ELSE h

\* agent.py:317-319  keep the last 20 messages.
HistoryCap == 20

\* The slice off by one: chat_history[-21:].
KeepLast_OffByOne(h) ==
    IF Len(h) > HistoryCap THEN SubSeq(h, Len(h) - HistoryCap, Len(h)) ELSE h

\* The slice from the wrong end: chat_history[:20].
KeepLast_KeepsFirst(h) ==
    IF Len(h) > HistoryCap THEN SubSeq(h, 1, HistoryCap) ELSE h

KeepLast(h) ==
    IF Len(h) > HistoryCap THEN SubSeq(h, Len(h) - HistoryCap + 1, Len(h)) ELSE h

\* agent.py:321  the value returned after the agent step.
ReturnValue(output) == IF Truthy(output) THEN output ELSE NotSurePlaceholder

\* A handler that also resets the list: chat_history = [].
OuterHandler_ResetsHistory(h, e) ==
    [completed |-> FALSE, raised |-> ~CaughtByChat(e),
     ret |-> IF CaughtByChat(e) THEN Apology ELSE None, history |-> << >>]

\* agent.py:323-326  the outer handler: the apology, or the exception goes on.
\* h is chat_history as the failing statement left it.
OuterHandler(h, e) ==
    [completed |-> FALSE, raised |-> ~CaughtByChat(e),
     ret |-> IF CaughtByChat(e) THEN Apology ELSE None, history |-> h]

\* agent.py:265-326  chat(user_input, agent_executor) on history h, where created
\* is what create_agent() does if it is called and response what invoke does.
\*   invoked:   agent_executor.invoke was called, with passed as chat_history
\*   completed: the agent step (292-310) ended with an output
\*   raised:    an exception left chat()
ChatResult(h, user_input, agent_executor, created, response) ==
    LET formatted_history == FormatHistory(h)
        create_failed == agent_executor = "None" /\ created # NoExc
        step == AgentStep(response)
        rest ==
            IF create_failed THEN OuterHandler(h, created)
            ELSE IF step.raised THEN OuterHandler(h, response.exc)
            ELSE [completed |-> TRUE, raised |-> FALSE,
                  ret |-> ReturnValue(step.output),
                  history |-> KeepLast(UpdateHistory(h, user_input, step.output))]
    IN  [user_input |-> user_input, agent_executor |-> agent_executor,
         created |-> IF agent_executor = "None" THEN created ELSE NoExc,
         invoked |-> ~create_failed,
         passed |-> IF create_failed THEN << >> ELSE formatted_history,
         response |-> IF create_failed THEN NoResp ELSE response,
         completed |-> rest.completed, raised |-> rest.raised, ret |-> rest.ret,
         history |-> rest.history]

\* What the model remembers of a call: everything but the history it left.
CallOf(op, r) ==
    [op |-> op, user_input |-> r.user_input, agent_executor |-> r.agent_executor,
     created |-> r.created, invoked |-> r.invoked, passed |-> r.passed,
     response |-> r.response, completed |-> r.completed, raised |-> r.raised,
     ret |-> r.ret]

NoCall ==
    [op |-> "none", user_input |-> PyStr(<< >>), agent_executor |-> "None",
     created |-> NoExc, invoked |-> FALSE, passed |-> << >>, response |-> NoResp,
     completed |-> FALSE, raised |-> FALSE, ret |-> None]

(***************************************************************************)
(* calculate_crawl_timing  (agent.py:112-160)                              *)
(***************************************************************************)

NoTool == [name |-> "none"]

\* No browser session has loaded the page yet.
Sessions == {"A", "B"}
NoSession ==
    [started |-> FALSE, session_id |-> "", messages |-> << >>, agent_ready |-> FALSE,
     agent_executor |-> "None", last_error |-> FALSE]
NoEvent == [kind |-> "none", session |-> "", raw |-> << >>]
\* A script thread that is not inside chat(): its locals hold nothing.
Idle ==
    [pc |-> "idle", user_input |-> PyStr(<< >>), passed |-> << >>, response |-> NoResp,
     output |-> None, kept |-> << >>]
UiNotStarted ==
    /\ sessions = [s \in Sessions |-> NoSession]
    /\ cache = "None"
    /\ ui_event = NoEvent
    /\ threads = [s \in Sessions |-> Idle]

\* The lower-cased duration without .lower(): a case-sensitive test.
DurationLower_CaseSensitive(duration) == duration

\* agent.py:125, 137  duration.lower()
DurationLower(duration) == Lower(duration)

\* agent.py:125-132  the two-way choice on "half": start_time, total_hours, activity.
CrawlKind(duration) ==
    IF Contains(DurationLower(duration), <<"h", "a", "l", "f">>)
    THEN [start_time |-> "11:00 AM", total_hours |-> 5, activity |-> "Half-Day Food Crawl"]
    ELSE [start_time |-> "10:00 AM", total_hours |-> 10, activity |-> "Full-Day Food Crawl"]

\* agent.py:137  the hour the loop starts from: a second test, on "full".
StartHour(duration) ==
    IF Contains(DurationLower(duration), <<"f", "u", "l", "l">>) THEN 10 ELSE 11

\* agent.py:134, 141  int(total_hours / num_stops * 60) for num_stops >= 1; the
\* float product truncates to the integer quotient for every num_stops up to
\* 200000.
StopDuration(total_hours, num_stops) == (total_hours * 60) \div num_stops

\* One `if current_min >= 60` in place of the loop.
CarryMinutes_Once(current_hour, current_min) ==
    IF current_min >= 60
    THEN [hour |-> current_hour + 1, min |-> current_min - 60]
    ELSE [hour |-> current_hour, min |-> current_min]

\* A carry that starts the next hour at :00, losing the minutes left over.
CarryMinutes_DropsRemainder(current_hour, current_min) ==
    IF current_min >= 60
    THEN [hour |-> current_hour + (current_min \div 60), min |-> 0]
    ELSE [hour |-> current_hour, min |-> current_min]

\* agent.py:153-155  while current_min >= 60: carry an hour.
RECURSIVE CarryLoop(_, _)
CarryLoop(current_hour, current_min) ==
    IF current_min >= 60
    THEN CarryLoop(current_hour + 1, current_min - 60)
    ELSE [hour |-> current_hour, min |-> current_min]

CarryMinutes(current_hour, current_min) == CarryLoop(current_hour, current_min)

\* agent.py:143-149  one rendered line "Stop i: H:MM AM/PM (Duration: d mins)";
\* hour24 is current_hour, which the line renders as display_hour and am_pm.
StopLine(i, current_hour, current_min, stop_duration) ==
    LET am_pm == IF current_hour < 12 THEN "AM" ELSE "PM"
        shown == IF current_hour <= 12 THEN current_hour ELSE current_hour - 12
        display_hour == IF shown = 0 THEN 12 ELSE shown
    IN  [stop |-> i, hour24 |-> current_hour, display_hour |-> display_hour,
         minute |-> current_min, am_pm |-> am_pm, duration |-> stop_duration]

\* agent.py:140-155  for i in range(1, num_stops + 1): render, then add time.
RECURSIVE StopLines(_, _, _, _, _)
StopLines(i, num_stops, current_hour, current_min, stop_duration) ==
    IF i > num_stops THEN << >>
    ELSE LET next == CarryMinutes(current_hour, current_min + stop_duration)
         IN  <<StopLine(i, current_hour, current_min, stop_duration)>>
                \o StopLines(i + 1, num_stops, next.hour, next.min, stop_duration)

\* A guard that turns every stop count below 1 into the error text.
CrawlTiming_RejectsNonPositive(duration, num_stops) ==
    LET kind == CrawlKind(duration)
    IN  IF num_stops <= 0
        THEN [error |-> TRUE, message |-> <<"Error calculating timing: ", "division by zero">>,
              activity |-> kind.activity, total_hours |-> kind.total_hours,
              start_time |-> kind.start_time, num_stops |-> num_stops, stops |-> << >>]
        ELSE [error |-> FALSE, message |-> << >>,
              activity |-> kind.activity, total_hours |-> kind.total_hours,
              start_time |-> kind.start_time, num_stops |-> num_stops,
              stops |-> StopLines(1, num_stops, StartHour(duration), 0,
                                  StopDuration(kind.total_hours, num_stops))]

\* agent.py:124-160  calculate_crawl_timing(duration, num_stops).  The returned
\* text is the header (activity, num_stops) and the stop lines; total_hours and
\* start_time are the locals the first choice sets.
CrawlTiming(duration, num_stops) ==
    LET kind == CrawlKind(duration)
    IN  IF num_stops = 0
        THEN [error |-> TRUE, message |-> <<"Error calculating timing: ", "division by zero">>,
              activity |-> kind.activity, total_hours |-> kind.total_hours,
              start_time |-> kind.start_time, num_stops |-> num_stops, stops |-> << >>]
        ELSE [error |-> FALSE, message |-> << >>,
              activity |-> kind.activity, total_hours |-> kind.total_hours,
              start_time |-> kind.start_time, num_stops |-> num_stops,
              stops |-> IF num_stops < 0 THEN << >>
                        ELSE StopLines(1, num_stops, StartHour(duration), 0,
                                       StopDuration(kind.total_hours, num_stops))]

MaxStops == 12
StopCounts == -2..MaxStops

Durations ==
    {<<"h", "a", "l", "f", "-", "d", "a", "y">>, <<"H", "a", "l", "f", "-", "D", "a", "y">>, <<"H", "A", "L", "F">>, <<"f", "u", "l", "l", "-", "d", "a", "y">>, <<"F", "u", "l", "l", " ", "D", "a", "y">>, <<"d", "a", "y">>, <<"h", "a", "l", "f", "u", "l", "l">>,
     <<"f", "u", "l", "l", ",", " ", "n", "o", "t", " ", "h", "a", "l", "f">>,
     << >>}

\* The agent calls the timing tool.
CallTiming(duration, num_stops) ==
    /\ tool.name = "none"
    /\ tool' = [name |-> "calculate_crawl_timing", duration |-> duration,
                num_stops |-> num_stops, result |-> CrawlTiming(duration, num_stops)]
    /\ UNCHANGED <<chatVars, uiVars>>

(***************************************************************************)
(* get_cuisine_recommendations  (agent.py:82-110)                          *)
(***************************************************************************)

\* agent.py:93-103  cuisine_data, in the order the dict literal lists its keys
\* (the descriptions are abbreviated).
cuisine_data ==
    << <<<<"s", "t", "r", "e", "e", "t", " ", "f", "o", "o", "d">>,
         "Popular dishes: Pani Puri, Vada Pav, Pav Bhaji, Chaat, Momos, Rolls, Samosas. ...">>,
       <<<<"v", "e", "g", "a", "n">>,
         "Popular dishes: Buddha Bowls, Quinoa Salads, Veggie Wraps, Smoothie Bowls, ...">>,
       <<<<"f", "i", "n", "e", " ", "d", "i", "n", "i", "n", "g">>,
         "Multi-course meals, Chef's specials, Wine pairings, Signature dishes, Tasting menus. ...">>,
       <<<<"i", "n", "d", "i", "a", "n">>,
         "Popular dishes: Butter Chicken, Biryani, Tandoori items, Dal Makhani, ...">>,
       <<<<"i", "t", "a", "l", "i", "a", "n">>,
         "Popular dishes: Pizza, Pasta (Carbonara, Alfredo), Risotto, Tiramisu, Gelato. ...">>,
       <<<<"c", "h", "i", "n", "e", "s", "e">>,
         "Popular dishes: Dim Sum, Noodles, Fried Rice, Manchurian, Spring Rolls, Soups. ...">>,
       <<<<"j", "a", "p", "a", "n", "e", "s", "e">>,
         "Popular dishes: Sushi, Ramen, Tempura, Teriyaki, Bento Boxes. ...">>,
       <<<<"t", "h", "a", "i">>,
         "Popular dishes: Pad Thai, Tom Yum Soup, Green Curry, Som Tam, Spring Rolls. ...">>,
       <<<<"m", "e", "d", "i", "t", "e", "r", "r", "a", "n", "e", "a", "n">>,
         "Popular dishes: Hummus, Falafel, Shawarma, Greek Salad, Kebabs. ...">> >>

\* cuisine_type used as it is, without .lower().
CuisineLower_CaseSensitive(cuisine_type) == cuisine_type

\* agent.py:105  cuisine_lower = cuisine_type.lower()
CuisineLower(cuisine_type) == Lower(cuisine_type)

\* agent.py:106-108  the first key of the table, from position i on, that is a
\* substring of cuisine_lower; 0 when there is none.
RECURSIVE FirstKey(_, _)
FirstKey(cuisine_lower, i) ==
    IF i > Len(cuisine_data) THEN 0
    ELSE IF Contains(cuisine_lower, cuisine_data[i][1]) THEN i
    ELSE FirstKey(cuisine_lower, i + 1)

\* agent.py:105-110  get_cuisine_recommendations(cuisine_type): the returned text
\* (the input is echoed as it was given) and the table entry it was built from.
CuisineRecommendations(cuisine_type) ==
    LET k == FirstKey(CuisineLower(cuisine_type), 1)
    IN  IF k # 0
        THEN [key |-> cuisine_data[k][1], description |-> cuisine_data[k][2],
              text |-> <<"Recommendations for ">> \o cuisine_type
                        \o <<":\n", cuisine_data[k][2]>>]
        ELSE [key |-> << >>, description |-> "",
              text |-> <<"General recommendations for ">> \o cuisine_type
                        \o <<": Explore local specialties, ask for chef's recommendations, ...">>]

MaxParts == 2

\* The pieces cuisine names are put together from.
CuisineParts ==
    {<<"v", "e", "g", "a", "n">>,
     <<"V", "e", "g", "a", "n">>,
     <<"I", "N", "D", "I", "A", "N", " ">>,
     <<"s", "t", "r", "e", "e", "t", " ", "f", "o", "o", "d">>,
     <<"S", "t", "r", "e", "e", "t", " ", "F", "o", "o", "d">>,
     <<"f", "i", "n", "e">>,
     <<" ", "d", "i", "n", "i", "n", "g">>,
     <<"T", "h", "a", "i", " ">>,
     <<"s", "u", "s", "h", "i">>,
     <<"b", "e", "s", "t", " ">>}

RECURSIVE Joined(_)
Joined(n) ==
    IF n = 0 THEN {<< >>}
    ELSE Joined(n - 1) \cup {a \o b : a \in Joined(n - 1), b \in CuisineParts}

CuisineInputs == Joined(MaxParts)

\* The agent calls the cuisine tool.
CallCuisine(cuisine_type) ==
    /\ tool.name = "none"
    /\ tool' = [name |-> "get_cuisine_recommendations", cuisine_type |-> cuisine_type,
                result |-> CuisineRecommendations(cuisine_type)]
    /\ UNCHANGED <<chatVars, uiVars>>

(***************************************************************************)
(* search_restaurants  (agent.py:39-80)                                    *)
(***************************************************************************)

\* agent.py:69  results[:5]
ResultLimit == 5
\* agent.py:74  content[:200]
ContentLimit == 200

\* All of the list, without the [:5].
FirstResults_All(results) == results

\* agent.py:69  results[:5]
FirstResults(results) == Slice(results, 0, ResultLimit)

\* agent.py:70-74  one entry of the list, at position i of results[:5]: a dict is
\* rendered "i. title\n   content[:200]...\n   Source: url\n\n", anything else
\* is skipped.
RenderEntry(i, result) ==
    IF result.isdict
    THEN << [n |-> i,
             title |-> IF result.has_title THEN result.title ELSE "Restaurant",
             content |-> Slice(result.content, 0, ContentLimit),
             url |-> result.url] >>
    ELSE << >>

RECURSIVE RenderEntries(_, _)
RenderEntries(shown, i) ==
    IF i > Len(shown) THEN << >>
    ELSE RenderEntry(i, shown[i]) \o RenderEntries(shown, i + 1)

\* agent.py:52-80  search_restaurants(city, cuisine, budget), given what
\* tavily_tool.invoke does: raise, or return a falsy value, a list of entries
\* or some other non-empty value (the tool's own error text).
SearchRestaurants(city, cuisine, budget, api) ==
    IF api.kind = "raise"
    THEN [kind |-> "error", header |-> << >>, entries |-> << >>]
    ELSE IF api.kind = "falsy"
    THEN [kind |-> "none", header |-> << >>, entries |-> << >>]
    ELSE [kind |-> "results",
          header |-> <<"Restaurant search results for ", cuisine, " in ", city,
                       " (", budget, " budget):\n\n">>,
          entries |-> IF api.kind = "list"
                      THEN RenderEntries(FirstResults(api.results), 1)
                      ELSE << >>]

MaxResults == 6

\* A dict entry whose content has n characters.
DictEntry(title, n) ==
    [isdict |-> TRUE, has_title |-> title # "", title |-> title,
     content |-> [i \in 1..n |-> i], url |-> "https://example.com/" \o title]
NonDictEntry ==
    [isdict |-> FALSE, has_title |-> FALSE, title |-> "", content |-> << >>, url |-> ""]

SearchEntries == {DictEntry("Swati Snacks", ContentLimit + 5), DictEntry("", 3), NonDictEntry}

RECURSIVE ListsOf(_)
ListsOf(n) ==
    IF n = 0 THEN {<< >>}
    ELSE ListsOf(n - 1) \cup {Append(l, e) : l \in ListsOf(n - 1), e \in SearchEntries}

ApiOutcomes ==
    {[kind |-> "raise", results |-> << >>], [kind |-> "falsy", results |-> << >>],
     [kind |-> "text", results |-> << >>]}
        \cup {[kind |-> "list", results |-> l] : l \in ListsOf(MaxResults) \ {<< >>}}

\* The agent calls the search tool.
CallSearch(api) ==
    /\ tool.name = "none"
    /\ tool' = [name |-> "search_restaurants", api |-> api,
                result |-> SearchRestaurants("Mumbai", "street food", "low", api)]
    /\ UNCHANGED <<chatVars, uiVars>>

InitTools ==
    /\ chat_history = << >>
    /\ call = NoCall
    /\ calls = 0
    /\ tool = NoTool
    /\ UiNotStarted

\* The executor takes the tool's result; the tool is idle again.
ToolDone ==
    /\ tool.name # "none"
    /\ tool' = NoTool
    /\ UNCHANGED <<chatVars, uiVars>>

\* The executor runs one tool call at a time.
TimingCall == \E d \in Durations, n \in StopCounts : CallTiming(d, n)
CuisineCall == \E c \in CuisineInputs : CallCuisine(c)
SearchCall == \E api \in ApiOutcomes : CallSearch(api)

NextTools == TimingCall \/ CuisineCall \/ SearchCall \/ ToolDone

SpecTools == InitTools /\ [][NextTools]_vars

(***************************************************************************)
(* The agent module driven by its callers from an empty history: chat()    *)
(* calls and the command-line 'clear', without end.                        *)
(***************************************************************************)

Plan == PyStr(<<"Here is your food crawl plan">>)
Boom == Exc("RuntimeError", <<"rate limit exceeded">>)
NoKey == Exc("ValueError", <<"GROQ_API_KEY missing">>)

UserInputs == {PyStr(<<"plan a half-day crawl">>)}
Responses == {RespDict(TRUE, Plan), RespRaise(Boom), RespDict(TRUE, NoResponseSentinel)}
Executors == {"None", "executor"}
CreateOutcomes == {NoExc, NoKey}

Init ==
    /\ chat_history = << >>
    /\ call = NoCall
    /\ calls = 0
    /\ tool = NoTool
    /\ UiNotStarted

\* A call chat(user_input, agent_executor).
Chat(user_input, agent_executor, created, response) ==
    LET r == ChatResult(chat_history, user_input, agent_executor, created, response)
    IN  /\ chat_history' = r.history
        /\ call' = CallOf("chat", r)

\* agent.py:380-383  the command-line 'clear' command.
CliClear ==
    /\ chat_history' = << >>
    /\ call' = [NoCall EXCEPT !.op = "clear"]

ChatAny ==
    \E u \in UserInputs, ex \in Executors, cr \in CreateOutcomes, resp \in Responses :
        Chat(u, ex, cr, resp)

Next ==
    \/ ChatAny /\ UNCHANGED <<calls, tool, uiVars>>
    \/ CliClear /\ UNCHANGED <<calls, tool, uiVars>>

Spec == Init /\ [][Next]_vars

(***************************************************************************)
(* A few chat() calls with every kind of executor result, from an empty    *)
(* history and from histories that ten earlier exchanges have filled.      *)
(***************************************************************************)

MaxCalls == 2

\* The history after n exchanges "question i" / "answer i".
SeedHistory(n) ==
    [i \in 1..(2 * n) |->
        IF i % 2 = 1
        THEN <<"human", PyStr(<<"question ", ToString((i + 1) \div 2)>>)>>
        ELSE <<"assistant", PyStr(<<"answer ", ToString(i \div 2)>>)>>]

SeedHistories ==
    {SeedHistory(0), SeedHistory((HistoryCap \div 2) - 1), SeedHistory(HistoryCap \div 2)}

AllResponses ==
    {RespNone,
     RespDict(FALSE, None), RespDict(TRUE, None), RespDict(TRUE, PyStr(<< >>)),
     RespDict(TRUE, PyInt(<<"0">>)), RespDict(TRUE, PyInt(<<"42">>)),
     RespDict(TRUE, Plan), RespDict(TRUE, NoResponseSentinel),
     RespObj(TRUE, Plan), RespObj(TRUE, PyStr(<< >>)), RespObj(TRUE, None),
     RespObj(TRUE, PyInt(<<"42">>)), RespObj(FALSE, None),
     RespOther(PyStr(<< >>)), RespOther(Plan), RespOther(PyInt(<<"42">>)),
     RespRaise(Boom), RespRaise(Exc("Exception", << >>)),
     RespRaise(Exc("ValueError", <<"bad tool call">>))}

OutcomeInputs == UserInputs \cup {PyStr(<<"add a vegan stop">>)}

InitOutcomes ==
    /\ chat_history \in SeedHistories
    /\ call = NoCall
    /\ calls = 0
    /\ tool = NoTool
    /\ UiNotStarted

ChatOutcome ==
    /\ calls < MaxCalls
    /\ \E u \in OutcomeInputs, ex \in Executors, cr \in CreateOutcomes, resp \in AllResponses :
            Chat(u, ex, cr, resp)
    /\ calls' = calls + 1
    /\ UNCHANGED <<tool, uiVars>>

NextOutcomes == ChatOutcome

SpecOutcomes == InitOutcomes /\ [][NextOutcomes]_vars

(***************************************************************************)
(* The Streamlit page  (app.py): each run of the script for one session    *)
(***************************************************************************)

Whitespace == {" ", "\n", "\t"}

\* str.strip(): leading, then trailing whitespace removed.
RECURSIVE LStrip(_)
LStrip(s) == IF s # << >> /\ Head(s) \in Whitespace THEN LStrip(Tail(s)) ELSE s
RECURSIVE RStrip(_)
RStrip(s) ==
    IF s # << >> /\ s[Len(s)] \in Whitespace THEN RStrip(SubSeq(s, 1, Len(s) - 1)) ELSE s
Strip(s) == RStrip(LStrip(s))

\* app.py:353  the message shown while the agent works.
ThinkingPlaceholder == PyStr(<<"Planning your perfect food crawl...">>)
\* app.py:391  the text the outer handler shows.
UiErrorText ==
    PyStr(<<"I encountered an error. Please check your API keys and try again.">>)

\* app.py:174-185  ensure_agent_ready() for session state sess, with cached the
\* executor st.cache_resource holds and created what create_agent() does if it
\* is called (an exception is not cached).
EnsureAgentReady(sess, cached, created) ==
    IF sess.agent_ready /\ sess.agent_executor # "None"
    THEN [raised |-> FALSE, executor |-> sess.agent_executor, session |-> sess,
          cache |-> cached]
    ELSE IF cached = "None" /\ created # NoExc
    THEN [raised |-> TRUE, executor |-> "None", session |-> sess, cache |-> cached]
    ELSE [raised |-> FALSE, executor |-> "executor",
          session |-> [sess EXCEPT !.agent_executor = "executor", !.agent_ready = TRUE],
          cache |-> "executor"]

\* app.py:188-198  the session state a first run sets up.
InitSession(s, sess) ==
    IF sess.started THEN sess
    ELSE [started |-> TRUE, session_id |-> s, messages |-> << >>,
          agent_ready |-> FALSE, agent_executor |-> "None", last_error |-> FALSE]

\* app.py:188-265  a run of the script while the session's agent is not ready:
\* the session state is set up and the agent initialised; on success the
\* script reruns, on failure it stops, and either way no form is handled.
PageRun(s, created) ==
    LET sess == InitSession(s, sessions[s])
        ens == EnsureAgentReady(sess, cache, created)
    IN  /\ ~sessions[s].agent_ready
        /\ sessions' = [sessions EXCEPT ![s] =
                IF ens.raised THEN [sess EXCEPT !.last_error = TRUE]
                ELSE [ens.session EXCEPT !.agent_ready = TRUE]]
        /\ cache' = ens.cache
        /\ ui_event' = [kind |-> "load", session |-> s, raw |-> << >>]
        /\ UNCHANGED <<chatVars, tool, threads>>

\* A Clear that also empties the agent's list, as the command-line 'clear' does.
Clear_AlsoHistory(s) ==
    /\ sessions[s].agent_ready
    /\ sessions' = [sessions EXCEPT ![s].messages = << >>]
    /\ ui_event' = [kind |-> "clear", session |-> s, raw |-> << >>]
    /\ chat_history' = << >>
    /\ UNCHANGED <<cache, call, calls, tool, threads>>

\* app.py:338-342  the Clear button.
Clear(s) ==
    /\ sessions[s].agent_ready
    /\ sessions' = [sessions EXCEPT ![s].messages = << >>]
    /\ ui_event' = [kind |-> "clear", session |-> s, raw |-> << >>]
    /\ UNCHANGED <<cache, chatVars, tool, threads>>

\* The first assistant message is updated: the loop runs forwards.
SetLastAssistant_First(messages, content) ==
    LET idx == {i \in 1..Len(messages) : messages[i].role = "assistant"}
    IN  IF idx = {} THEN messages
        ELSE [messages EXCEPT ![CHOOSE i \in idx : \A j \in idx : i <= j].content = content]

\* app.py:371-375, 389-393  the last assistant message gets the content.
SetLastAssistant(messages, content) ==
    LET idx == {i \in 1..Len(messages) : messages[i].role = "assistant"}
    IN  IF idx = {} THEN messages
        ELSE [messages EXCEPT ![CHOOSE i \in idx : \A j \in idx : j <= i].content = content]

\* app.py:361-368  the response shown for what agent_chat did.
UiResponse(r) ==
    IF r.raised
    THEN PyStr(<<"I encountered an error: ">>
                \o (IF r.created # NoExc THEN r.created.text ELSE r.response.exc.text)
                \o <<". Please try again.">>)
    ELSE IF r.ret = None
    THEN PyStr(<<"I didn't receive a response. Please try again with your city, cuisine preference, and budget.">>)
    ELSE IF r.ret.t # "str" THEN PyStr(Str(r.ret))
    ELSE r.ret

MaxUICalls == 2

\* app.py:344-399  the submit button with raw in the text area.
Submit(s, raw, created, response) ==
    /\ sessions[s].agent_ready
    /\ calls < MaxUICalls
    /\ ui_event' = [kind |-> "submit", session |-> s, raw |-> raw]
    /\ UNCHANGED <<tool, threads>>
    /\ IF raw # << >> /\ Strip(raw) # << >>
       THEN LET text == Strip(raw)
                shown == sessions[s].messages
                            \o <<[role |-> "user", content |-> PyStr(text)],
                                 [role |-> "assistant", content |-> ThinkingPlaceholder]>>
                sess == [sessions[s] EXCEPT !.messages = shown]
                ens == IF sess.agent_executor # "None"
                       THEN [raised |-> FALSE, executor |-> sess.agent_executor,
                             session |-> sess, cache |-> cache]
                       ELSE EnsureAgentReady(sess, cache, created)
                r == ChatResult(chat_history, PyStr(text), ens.executor, created, response)
            IN  IF ens.raised
                THEN /\ sessions' = [sessions EXCEPT ![s] =
                            [sess EXCEPT !.last_error = TRUE,
                                         !.messages = SetLastAssistant(shown, UiErrorText)]]
                     /\ cache' = ens.cache
                     /\ UNCHANGED chatVars
                ELSE /\ sessions' = [sessions EXCEPT ![s] =
                            [ens.session EXCEPT
                                !.messages = SetLastAssistant(shown, UiResponse(r))]]
                     /\ cache' = ens.cache
                     /\ chat_history' = r.history
                     /\ call' = CallOf("chat", r)
                     /\ calls' = calls + 1
       ELSE UNCHANGED <<sessions, cache, chatVars>>

RawTexts ==
    {<< >>, <<" ", "\n">>, <<" ", "h", "i", " ">>, <<"g", "o", "\n">>}
UiResponses == {RespDict(TRUE, Plan), RespRaise(Boom)}

PageRunAny == \E s \in Sessions, cr \in CreateOutcomes : PageRun(s, cr)
SubmitAny ==
    \E s \in Sessions, raw \in RawTexts, cr \in CreateOutcomes, resp \in UiResponses :
        Submit(s, raw, cr, resp)
ClearAny == \E s \in Sessions : Clear(s)

NextUI == PageRunAny \/ SubmitAny \/ ClearAny

SpecUI == Init /\ [][NextUI]_vars

(***************************************************************************)
(* Two sessions at once.  Streamlit runs each session's script in a thread *)
(* of its own inside one process, so two submissions can both be inside    *)
(* chat(), working on the one list agent.chat_history.  A thread can be    *)
(* suspended between any two statements; each action below is one          *)
(* statement (or one run of statements that touch only locals).            *)
(***************************************************************************)

MaxThreadCalls == 3

\* app.py:344-357  the submit button: the user message and the thinking
\* placeholder are appended and chat(text, agent_exec) is entered with the
\* executor the session stored when it became ready.
SubmitBegin(s, raw) ==
    /\ sessions[s].agent_ready /\ sessions[s].agent_executor # "None"
    /\ threads[s].pc = "idle"
    /\ calls < MaxThreadCalls
    /\ raw # << >> /\ Strip(raw) # << >>
    /\ sessions' = [sessions EXCEPT ![s].messages =
            @ \o <<[role |-> "user", content |-> PyStr(Strip(raw))],
                   [role |-> "assistant", content |-> ThinkingPlaceholder]>>]
    /\ threads' = [threads EXCEPT ![s] = [Idle EXCEPT !.pc = "format",
                                                      !.user_input = PyStr(Strip(raw))]]
    /\ ui_event' = [kind |-> "submit", session |-> s, raw |-> raw]
    /\ calls' = calls + 1
    /\ UNCHANGED <<chat_history, call, tool, cache>>

\* The history built from the session's own messages, the pending two left out.
FormatStep_OwnMessages(s) ==
    LET own == SubSeq(sessions[s].messages, 1, Len(sessions[s].messages) - 2)
    IN  /\ threads[s].pc = "format"
        /\ threads' = [threads EXCEPT ![s].pc = "invoke",
                ![s].passed = [i \in 1..Len(own) |->
                    [type |-> IF own[i].role = "user" THEN "HumanMessage" ELSE "AIMessage",
                     content |-> own[i].content]]]
        /\ UNCHANGED <<chatVars, tool, sessions, cache, ui_event>>

\* agent.py:271-280  formatted_history is built from the list as it is now.
FormatStep(s) ==
    /\ threads[s].pc = "format"
    /\ threads' = [threads EXCEPT ![s].pc = "invoke",
                                  ![s].passed = FormatHistory(chat_history)]
    /\ UNCHANGED <<chatVars, tool, sessions, cache, ui_event>>

\* agent.py:286-310  the agent step: invoke returns or raises, output is set.
InvokeStep(s, response) ==
    LET step == AgentStep(response)
    IN  /\ threads[s].pc = "invoke"
        /\ threads' = [threads EXCEPT
                ![s].pc = IF step.raised THEN "handler" ELSE "record",
                ![s].response = response,
                ![s].output = step.output]
        /\ UNCHANGED <<chatVars, tool, sessions, cache, ui_event>>

\* agent.py:313-314  the test on output and chat_history.append(("human", ...)).
AppendHuman(s) ==
    /\ threads[s].pc = "record"
    /\ IF Truthy(threads[s].output) /\ threads[s].output # NoResponseSentinel
       THEN /\ chat_history' = Append(chat_history, <<"human", threads[s].user_input>>)
            /\ threads' = [threads EXCEPT ![s].pc = "append"]
       ELSE /\ chat_history' = chat_history
            /\ threads' = [threads EXCEPT ![s].pc = "truncate"]
    /\ UNCHANGED <<call, calls, tool, sessions, cache, ui_event>>

\* agent.py:315  chat_history.append(("assistant", output))
AppendAssistant(s) ==
    /\ threads[s].pc = "append"
    /\ chat_history' = Append(chat_history, <<"assistant", threads[s].output>>)
    /\ threads' = [threads EXCEPT ![s].pc = "truncate"]
    /\ UNCHANGED <<call, calls, tool, sessions, cache, ui_event>>

\* agent.py:318-319  len(chat_history) > 20 and the slice chat_history[-20:],
\* a new list the thread holds until it is assigned.
KeepLastRead(s) ==
    /\ threads[s].pc = "truncate"
    /\ threads' = [threads EXCEPT
            ![s].pc = IF Len(chat_history) > HistoryCap THEN "store" ELSE "return",
            ![s].kept = IF Len(chat_history) > HistoryCap THEN KeepLast(chat_history)
                        ELSE << >>]
    /\ UNCHANGED <<chatVars, tool, sessions, cache, ui_event>>

\* agent.py:319  the assignment chat_history = <the slice>.
KeepLastStore(s) ==
    /\ threads[s].pc = "store"
    /\ chat_history' = threads[s].kept
    /\ threads' = [threads EXCEPT ![s].pc = "return", ![s].kept = << >>]
    /\ UNCHANGED <<call, calls, tool, sessions, cache, ui_event>>

\* agent.py:321-326, app.py:362-375  chat returns (or its handler does) and the
\* page puts the response into the session's last assistant message.
SubmitEnd(s) ==
    LET t == threads[s]
        handled == IF t.pc = "handler" THEN OuterHandler(chat_history, t.response.exc)
                   ELSE [completed |-> TRUE, raised |-> FALSE,
                         ret |-> ReturnValue(t.output), history |-> chat_history]
        r == [user_input |-> t.user_input, agent_executor |-> sessions[s].agent_executor,
              created |-> NoExc, invoked |-> TRUE, passed |-> t.passed,
              response |-> t.response, completed |-> handled.completed,
              raised |-> handled.raised, ret |-> handled.ret]
    IN  /\ t.pc \in {"return", "handler"}
        /\ call' = CallOf("chat", r)
        /\ sessions' = [sessions EXCEPT ![s].messages = SetLastAssistant(@, UiResponse(r))]
        /\ threads' = [threads EXCEPT ![s] = Idle]
        /\ UNCHANGED <<chat_history, calls, tool, cache, ui_event>>

ThreadTexts == {<<" ", "h", "i", " ">>}
ThreadResponses == {RespDict(TRUE, Plan)}

SubmitBeginAny == \E s \in Sessions, raw \in ThreadTexts : SubmitBegin(s, raw)
FormatAny == \E s \in Sessions : FormatStep(s)
InvokeAny == \E s \in Sessions, resp \in ThreadResponses : InvokeStep(s, resp)
AppendHumanAny == \E s \in Sessions : AppendHuman(s)
AppendAssistantAny == \E s \in Sessions : AppendAssistant(s)
KeepLastReadAny == \E s \in Sessions : KeepLastRead(s)
KeepLastStoreAny == \E s \in Sessions : KeepLastStore(s)
SubmitEndAny == \E s \in Sessions : SubmitEnd(s)

NextThreads ==
    \/ PageRunAny
    \/ SubmitBeginAny
    \/ FormatAny
    \/ InvokeAny
    \/ AppendHumanAny
    \/ AppendAssistantAny
    \/ KeepLastReadAny
    \/ KeepLastStoreAny
    \/ SubmitEndAny

\* The process has just started, or sessions that are gone by now have left
\* ten exchanges in the list.
ThreadHistories == {SeedHistory(0), SeedHistory(HistoryCap \div 2)}

InitThreads ==
    /\ chat_history \in ThreadHistories
    /\ call = NoCall
    /\ calls = 0
    /\ tool = NoTool
    /\ UiNotStarted

SpecThreads == InitThreads /\ [][NextThreads]_vars

(***************************************************************************)
(* Claims about chat() and chat_history                                    *)
(***************************************************************************)

\* C1: from an empty history, after any sequence of chat() calls and 'clear'
\* commands, chat_history holds at most 20 entries whenever a call has
\* returned, and the history handed to the executor never exceeds 20 messages.
C1_HistoryAtMost20 ==
    /\ Len(chat_history) <= 20
    /\ Len(call.passed) <= 20

\* A call that found the history full, passed all 20 messages and recorded
\* its own exchange.
C1_Witness ==
    /\ call.op = "chat" /\ call.completed
    /\ Len(call.passed) = 20
    /\ Len(chat_history) = 20
    /\ chat_history[20] = <<"assistant", call.ret>>

Placeholders ==
    {NoResponsePlaceholder, NoOutputPlaceholder, TroublePlaceholder, NotSurePlaceholder}

\* The executor returned None or something whose output is missing, empty or
\* not a string.
EmptyResponse(response) ==
    \/ response.kind = "None"
    \/ /\ response.kind = "dict"
       /\ \/ ~response.has
          \/ response.out.t # "str"
          \/ response.out.s = << >>
    \/ /\ response.kind = "object"
       /\ IF response.has /\ response.out.t # "NoneType"
          THEN response.out.s = << >>
          ELSE response.self.s = << >>
    \/ /\ response.kind = "other"
       /\ response.self.s = << >>

\* C2: chat() returns a non-empty string for every executor result (None, a dict
\* whose 'output' is missing, empty or not a string, an object with or without
\* an 'output' attribute, any other value), and an empty or None response is
\* replaced by a placeholder string.
C2_ReturnsNonEmptyString ==
    (call.op = "chat" /\ call.invoked /\ call.response.kind # "raise") =>
        /\ ~call.raised
        /\ call.ret.t = "str"
        /\ call.ret.s # << >>
        /\ EmptyResponse(call.response) => call.ret \in Placeholders

\* The executor returned a dict whose 'output' is the number 42.
C2_Witness ==
    /\ call.op = "chat"
    /\ call.response = RespDict(TRUE, PyInt(<<"42">>))
    /\ call.ret = TroublePlaceholder

\* C3: chat() never propagates an exception: when agent_executor.invoke raises it
\* returns a string containing the exception's text, and when it fails
\* elsewhere (create_agent raising for a None agent_executor) it returns the
\* fixed apology.
C3_NeverPropagates ==
    call.op = "chat" =>
        /\ ~call.raised
        /\ call.ret.t = "str"
        /\ (call.invoked /\ call.response.kind = "raise") =>
                /\ Contains(call.ret.s, call.response.exc.text)
                /\ call.ret # Apology
        /\ ~call.invoked => call.ret = Apology

\* An earlier call whose executor raised is on record with the exception's
\* text, and the last call failed in create_agent.
C3_Witness ==
    /\ \E i \in 1..Len(chat_history) :
            /\ chat_history[i][1] = "assistant"
            /\ Contains(chat_history[i][2].s, Boom.text)
    /\ call.op = "chat" /\ call.agent_executor = "None" /\ call.created = NoKey
    /\ call.ret = Apology

\* h2 is the last 20 entries of full (all of it when it has no more).
IsLast20Of(h2, full) ==
    /\ Len(h2) = IF Len(full) > 20 THEN 20 ELSE Len(full)
    /\ \A i \in 1..Len(h2) : h2[i] = full[Len(full) - Len(h2) + i]

Exchange(c) == << <<"human", c.user_input>>, <<"assistant", c.ret>> >>

\* C10 as stated: every chat() call whose agent step completes appends exactly
\* ('human', user_input), ('assistant', returned string), and beyond 20 entries
\* only the oldest are dropped, the order of the rest kept.
C10_Original ==
    [][(call'.op = "chat" /\ call'.completed) =>
            IsLast20Of(chat_history', chat_history \o Exchange(call'))]_vars

\* C10: the same for every completed agent step whose output is not the literal
\* 'No response generated'; a call with that output returns it and leaves
\* chat_history as it was.
C10_AppendsExchange ==
    [][(call'.op = "chat" /\ call'.completed) =>
            IF call'.ret = NoResponseSentinel
            THEN chat_history' = chat_history
            ELSE IsLast20Of(chat_history', chat_history \o Exchange(call'))]_vars

\* The executor raised on a full history: questions 2..10 remain, in order,
\* followed by the new exchange.
C10_Witness ==
    /\ call.op = "chat" /\ call.completed /\ call.response.kind = "raise"
    /\ Len(call.passed) = 20
    /\ SubSeq(chat_history, 1, 18) = SubSeq(SeedHistory(10), 3, 20)
    /\ SubSeq(chat_history, 19, 20) = Exchange(call)

\* C15: under sequential chat() calls starting from an empty history,
\* chat_history always has even length and strictly alternates ('human', ...),
\* ('assistant', ...) beginning with a human entry; truncation to the last 20
\* entries never splits a human/assistant pair.
C15_AlternatesInPairs ==
    /\ Len(chat_history) % 2 = 0
    /\ \A i \in 1..Len(chat_history) :
            chat_history[i][1] = (IF i % 2 = 1 THEN "human" ELSE "assistant")
    /\ \A i \in 1..Len(call.passed) :
            call.passed[i].type = (IF i % 2 = 1 THEN "HumanMessage" ELSE "AIMessage")

\* A call found twenty entries, so its exchange pushed the oldest pair out:
\* the list still opens with a question, and other calls of the run recorded
\* an executor error.
C15_Witness ==
    /\ call.op = "chat" /\ call.completed /\ call.ret = Plan
    /\ Len(call.passed) = 20
    /\ Len(chat_history) = 20
    /\ chat_history[1][1] = "human" /\ chat_history[20][1] = "assistant"
    /\ \E i \in 1..10 : chat_history[2 * i][2] = ErrorMessage(Boom)

\* C11: when chat() fails outside the agent step (agent_executor is None and
\* create_agent raises), chat_history is left exactly as it was before the
\* call: no human or assistant entry is recorded for that input.
C11_FailureLeavesHistory ==
    [][(call'.op = "chat" /\ call'.agent_executor = "None" /\ call'.created # NoExc) =>
            /\ ~call'.invoked /\ ~call'.completed
            /\ chat_history' = chat_history]_vars

\* After nine exchanges and one more that was recorded, a call without an
\* executor failed in create_agent: the twenty entries are still there and the
\* failed call's input is not the last question.
C11_Witness ==
    /\ calls = 2
    /\ call.op = "chat" /\ call.agent_executor = "None" /\ call.created = NoKey
    /\ ~call.invoked
    /\ Len(chat_history) = 20
    /\ SubSeq(chat_history, 1, 18) = SeedHistory(9)
    /\ chat_history[19] # <<"human", call.user_input>>

(***************************************************************************)
(* Claims about calculate_crawl_timing                                     *)
(***************************************************************************)

TimingCalled == tool.name = "calculate_crawl_timing" /\ tool.num_stops >= 1

\* The string contains "half" in any mix of upper and lower case.
SaysHalf(duration) ==
    \E i \in 1..(Len(duration) - 3) :
        /\ duration[i] \in {"h", "H"}
        /\ duration[i + 1] \in {"a", "A"}
        /\ duration[i + 2] \in {"l", "L"}
        /\ duration[i + 3] \in {"f", "F"}

BudgetMinutes(duration) == IF SaysHalf(duration) THEN 300 ELSE 600

\* C4 as stated: the budget is 5 hours when the duration contains 'half' in any
\* case and 10 hours otherwise; every one of the N >= 1 stop lines reports the
\* same duration, and N times that duration equals the budget in minutes.
C4_Original ==
    TimingCalled =>
        LET stops == tool.result.stops
        IN  /\ tool.result.total_hours * 60 = BudgetMinutes(tool.duration)
            /\ Len(stops) = tool.num_stops
            /\ \A i \in 1..Len(stops) : stops[i].duration = stops[1].duration
            /\ tool.num_stops * stops[1].duration = BudgetMinutes(tool.duration)

\* C4: the same, with the common duration d the budget's minutes divided by N
\* and rounded down to a whole minute: N*d <= budget < N*(d+1).
C4_EvenSplitRoundedDown ==
    TimingCalled =>
        LET stops == tool.result.stops
            budget == BudgetMinutes(tool.duration)
        IN  /\ tool.result.total_hours * 60 = budget
            /\ Len(stops) = tool.num_stops
            /\ \A i \in 1..Len(stops) : stops[i].duration = stops[1].duration
            /\ tool.num_stops * stops[1].duration <= budget
            /\ budget < tool.num_stops * (stops[1].duration + 1)

\* Seven stops of a "Half-Day" crawl: 42 minutes each, 294 in all.
C4_Witness ==
    /\ TimingCalled
    /\ SaysHalf(tool.duration) /\ ~Contains(tool.duration, <<"h", "a", "l", "f">>)
    /\ tool.num_stops = 7
    /\ tool.result.stops[7].duration = 42

\* C5: one two-way choice fixes label, budget and start together: the first stop
\* is at 11:00 AM exactly when the 5-hour 'Half-Day Food Crawl' budget is chosen
\* and at 10:00 AM exactly when the 10-hour 'Full-Day Food Crawl' budget is.
C5_StartFollowsBudget ==
    TimingCalled =>
        LET first == tool.result.stops[1]
            half == /\ tool.result.total_hours = 5
                    /\ tool.result.activity = "Half-Day Food Crawl"
            full == /\ tool.result.total_hours = 10
                    /\ tool.result.activity = "Full-Day Food Crawl"
            at(h) == first.display_hour = h /\ first.minute = 0 /\ first.am_pm = "AM"
        IN  /\ half \/ full
            /\ at(11) <=> half
            /\ at(10) <=> full

\* C6: every stop line, for any duration and N >= 1, is a valid 12-hour clock
\* time: hour 1..12, minutes 00..59, AM before noon and PM from 12:00 on, and
\* the underlying 24-hour value never reaches 24.
C6_ValidClock ==
    TimingCalled =>
        \A i \in 1..Len(tool.result.stops) :
            LET line == tool.result.stops[i]
            IN  /\ line.display_hour \in 1..12
                /\ line.minute \in 0..59
                /\ line.hour24 \in 0..23
                /\ line.display_hour % 12 = line.hour24 % 12
                /\ line.am_pm = IF line.hour24 < 12 THEN "AM" ELSE "PM"

\* An afternoon stop that starts off the hour, after stops of more than two
\* hours each.
C6_Witness ==
    /\ TimingCalled
    /\ \E i \in 2..Len(tool.result.stops) :
            LET line == tool.result.stops[i]
            IN  /\ line.duration > 120
                /\ line.am_pm = "PM" /\ line.display_hour < 12 /\ line.minute # 0

\* The time of day a stop line shows, in minutes after midnight.
ClockMinutes(line) ==
    ((line.display_hour % 12) + (IF line.am_pm = "PM" THEN 12 ELSE 0)) * 60 + line.minute

\* C12: with N >= 1 stops of d minutes each, stop i starts exactly (i-1)*d
\* minutes after the first stop, so start times never decrease, and the last
\* stop ends no later than the first stop's time plus the chosen budget of 5
\* or 10 hours.
C12_StopsEvenlySpaced ==
    TimingCalled =>
        LET stops == tool.result.stops
            n == Len(stops)
            d == stops[1].duration
            budget == tool.result.total_hours * 60
        IN  /\ n = tool.num_stops
            /\ budget \in {300, 600}
            /\ \A i \in 1..n :
                    ClockMinutes(stops[i]) = ClockMinutes(stops[1]) + (i - 1) * d
            /\ \A i \in 2..n : ClockMinutes(stops[i - 1]) <= ClockMinutes(stops[i])
            /\ ClockMinutes(stops[n]) + d <= ClockMinutes(stops[1]) + budget

\* Seven half-day stops of 42 minutes: the seventh starts at 3:12 PM, 252
\* minutes after 11:00 AM, and ends at 3:54 PM, before 4:00 PM.
C12_Witness ==
    /\ TimingCalled /\ tool.num_stops = 7 /\ tool.result.total_hours = 5
    /\ LET first == tool.result.stops[1]
           last == tool.result.stops[7]
       IN  /\ first.display_hour = 11 /\ first.minute = 0 /\ first.am_pm = "AM"
           /\ last.display_hour = 3 /\ last.minute = 12 /\ last.am_pm = "PM"
           /\ last.duration = 42

\* C13: calculate_crawl_timing never raises for an integer stop count: with
\* num_stops = 0 it returns a string beginning 'Error calculating timing:', and
\* with num_stops < 0 it returns the schedule header with no stop lines.
C13_ZeroAndNegativeStops ==
    (tool.name = "calculate_crawl_timing" /\ tool.num_stops <= 0) =>
        LET r == tool.result
        IN  IF tool.num_stops = 0
            THEN /\ r.error
                 /\ r.message # << >> /\ r.message[1] = "Error calculating timing: "
                 /\ r.stops = << >>
            ELSE /\ ~r.error /\ r.message = << >>
                 /\ r.activity \in {"Half-Day Food Crawl", "Full-Day Food Crawl"}
                 /\ r.num_stops = tool.num_stops
                 /\ r.stops = << >>

\* A call with no stops at all ended in the error text.
C13_Witness ==
    /\ tool.name = "calculate_crawl_timing" /\ tool.num_stops = 0
    /\ tool.result.error
    /\ tool.result.message = <<"Error calculating timing: ", "division by zero">>

\* A call with -2 stops gave the header of a half-day schedule and no line.
C13_WitnessNegative ==
    /\ tool.name = "calculate_crawl_timing" /\ tool.num_stops = -2
    /\ ~tool.result.error
    /\ tool.result.activity = "Half-Day Food Crawl"
    /\ tool.result.stops = << >>

(***************************************************************************)
(* Claims about get_cuisine_recommendations and search_restaurants         *)
(***************************************************************************)

CuisineCalled == tool.name = "get_cuisine_recommendations"

\* The table's keys in the order the claim lists them.
C7_TableOrder ==
    <<<<"s", "t", "r", "e", "e", "t", " ", "f", "o", "o", "d">>,
      <<"v", "e", "g", "a", "n">>,
      <<"f", "i", "n", "e", " ", "d", "i", "n", "i", "n", "g">>,
      <<"i", "n", "d", "i", "a", "n">>,
      <<"i", "t", "a", "l", "i", "a", "n">>,
      <<"c", "h", "i", "n", "e", "s", "e">>,
      <<"j", "a", "p", "a", "n", "e", "s", "e">>,
      <<"t", "h", "a", "i">>,
      <<"m", "e", "d", "i", "t", "e", "r", "r", "a", "n", "e", "a", "n">>>>

\* Two characters that are the same letter, whatever their case.
SameLetter(a, b) ==
    \/ a = b
    \/ \E i \in 1..Len(Uppers) : {a, b} = {Uppers[i], Lowers[i]}

\* key occurs in s when letter case is ignored.
ContainsAnyCase(s, key) ==
    \E i \in 0..(Len(s) - Len(key)) :
        \A j \in 1..Len(key) : SameLetter(s[i + j], key[j])

\* The position in the claim's order of the first key found in s; 0 for none.
C7_Expected(s) ==
    LET found == {k \in 1..Len(C7_TableOrder) : ContainsAnyCase(s, C7_TableOrder[k])}
    IN  IF found = {} THEN 0 ELSE CHOOSE k \in found : \A m \in found : k <= m

UpperChar(c) ==
    IF \E i \in 1..Len(Lowers) : Lowers[i] = c
    THEN Uppers[CHOOSE i \in 1..Len(Lowers) : Lowers[i] = c]
    ELSE c
Upper(s) == [i \in 1..Len(s) |-> UpperChar(s[i])]

\* The same input in other letter cases.
CaseVariants(s) == {Lower(s), Upper(s)}

\* The description is that of the first key, in table order, found in the
\* input with case ignored; the generic text comes exactly when none is found.
C7_FirstKeyChosen ==
    LET e == C7_Expected(tool.cuisine_type)
        r == tool.result
    IN  /\ e # 0 =>
            /\ r.key = C7_TableOrder[e]
            /\ r.description = cuisine_data[e][2]
            /\ r.text[1] = "Recommendations for "
            /\ r.text[Len(r.text)] = r.description
        /\ e = 0 <=> r.text[1] = "General recommendations for "
        /\ e = 0 <=> r.key = << >>

\* C7 as stated: the hardcoded description of the first table key that is a
\* substring of the lowercased input is returned, the generic text exactly
\* when no key is, and the result never depends on the input's letter case.
C7_Original ==
    CuisineCalled =>
        /\ C7_FirstKeyChosen
        /\ \A v \in CaseVariants(tool.cuisine_type) :
                CuisineRecommendations(v).text = tool.result.text

\* C7: the same, where what never depends on the letter case is the description
\* chosen; the returned text also echoes the input in the case it was given.
C7_ChoiceIgnoresCase ==
    CuisineCalled =>
        /\ C7_FirstKeyChosen
        /\ Slice(tool.result.text, 1, 1 + Len(tool.cuisine_type)) = tool.cuisine_type
        /\ \A v \in CaseVariants(tool.cuisine_type) :
                /\ CuisineRecommendations(v).key = tool.result.key
                /\ CuisineRecommendations(v).description = tool.result.description

\* "INDIAN Street Food": two keys, in capitals, the later one first in the table.
C7_Witness ==
    /\ CuisineCalled
    /\ Contains(Lower(tool.cuisine_type), C7_TableOrder[4])
    /\ ~Contains(tool.cuisine_type, C7_TableOrder[1])
    /\ tool.result.key = C7_TableOrder[1]

SearchCalled == tool.name = "search_restaurants"

\* C8: at most the first 5 entries of the API's list are formatted, in the API's
\* order, each with its content cut to at most 200 characters; entries that are
\* not dicts are skipped; a non-empty result always yields the header line.
C8_FormatsFirstFive ==
    (SearchCalled /\ tool.api.kind \in {"list", "text"}) =>
        LET rs == tool.api.results
            es == tool.result.entries
            shown == {i \in 1..Len(rs) : i <= 5 /\ rs[i].isdict}
        IN  /\ tool.result.kind = "results"
            /\ tool.result.header # << >>
            /\ Len(es) = Cardinality(shown)
            /\ \A j \in 1..Len(es) :
                    /\ es[j].n \in shown
                    /\ j > 1 => es[j - 1].n < es[j].n
                    /\ Len(es[j].content) <= 200
                    /\ Len(es[j].content) =
                            (IF Len(rs[es[j].n].content) > 200 THEN 200
                             ELSE Len(rs[es[j].n].content))
                    /\ \A k \in 1..Len(es[j].content) :
                            es[j].content[k] = rs[es[j].n].content[k]
                    /\ es[j].url = rs[es[j].n].url

\* Six entries: the second is not a dict, the first has more than 200
\* characters, and the sixth, a dict, is left out.
C8_Witness ==
    /\ SearchCalled /\ tool.api.kind = "list"
    /\ Len(tool.api.results) = 6
    /\ Len(tool.api.results[1].content) > 200
    /\ ~tool.api.results[2].isdict
    /\ tool.api.results[6].isdict
    /\ Len(tool.result.entries) = 4
    /\ Len(tool.result.entries[1].content) = 200

(***************************************************************************)
(* Claims about the page                                                   *)
(***************************************************************************)

Blank(raw) == \A i \in 1..Len(raw) : raw[i] \in {" ", "\n", "\t"}

\* t is raw without the whitespace around it.
IsStripped(t, raw) ==
    /\ t # << >>
    /\ ~Blank(<<t[1]>>) /\ ~Blank(<<t[Len(t)]>>)
    /\ \E i \in 0..Len(raw) :
            /\ i + Len(t) <= Len(raw)
            /\ SubSeq(raw, i + 1, i + Len(t)) = t
            /\ Blank(SubSeq(raw, 1, i))
            /\ Blank(SubSeq(raw, i + Len(t) + 1, Len(raw)))

\* C9: a submission whose text is not blank calls chat exactly once and appends
\* to the session's messages one user message (the stripped text) and one
\* assistant message, which holds the chat response or an error text and never
\* the 'Planning your perfect food crawl' placeholder; a blank or
\* whitespace-only submission changes no message and does not call chat.
C9_SubmitCallsChatOnce ==
    [][ui_event'.kind = "submit" =>
        LET s == ui_event'.session
            raw == ui_event'.raw
            before == sessions[s].messages
            after == sessions'[s].messages
            n == Len(before)
        IN  IF Blank(raw)
            THEN /\ sessions' = sessions
                 /\ calls' = calls
                 /\ chat_history' = chat_history
            ELSE /\ calls' = calls + 1
                 /\ IsStripped(call'.user_input.s, raw)
                 /\ Len(after) = n + 2
                 /\ SubSeq(after, 1, n) = before
                 /\ after[n + 1] = [role |-> "user", content |-> call'.user_input]
                 /\ after[n + 2].role = "assistant"
                 /\ after[n + 2].content.t = "str"
                 /\ after[n + 2].content # ThinkingPlaceholder
                 /\ \/ after[n + 2].content = call'.ret
                    \/ after[n + 2].content.s[1] \in
                            {"I encountered an error: ", UiErrorText.s[1]}
                 /\ \A o \in Sessions \ {s} : sessions'[o] = sessions[o]]_vars

\* A second submission " hi " in a session, answered by an executor that
\* raised: four messages, the last one the error text chat returned.
C9_Witness ==
    /\ ui_event.kind = "submit"
    /\ ui_event.raw = <<" ", "h", "i", " ">>
    /\ LET m == sessions[ui_event.session].messages
       IN  /\ Len(m) = 4
           /\ m[3] = [role |-> "user", content |-> PyStr(<<"h", "i">>)]
           /\ m[4] = [role |-> "assistant", content |-> ErrorMessage(Boom)]
           /\ m[2].content # ThinkingPlaceholder

\* C14: the Clear button resets only the session's message list to empty: the
\* session id, the agent-readiness flag, the stored agent executor and the
\* agent module's chat_history are all unchanged, so the next request after a
\* Clear is still sent to the executor with the earlier exchanges as history.
C14_ClearKeepsHistory ==
    [][/\ ui_event'.kind = "clear" =>
            LET s == ui_event'.session
            IN  /\ sessions'[s] = [sessions[s] EXCEPT !.messages = << >>]
                /\ \A o \in Sessions \ {s} : sessions'[o] = sessions[o]
                /\ cache' = cache
                /\ chat_history' = chat_history
       /\ (ui_event.kind = "clear" /\ ui_event'.kind = "submit" /\ calls' = calls + 1) =>
            /\ call'.invoked
            /\ call'.passed = FormatHistory(chat_history)
            /\ Len(call'.passed) = Len(chat_history)]_vars

\* Session A, the only one started, asked, cleared and asked again: its page
\* shows the second exchange alone, while the executor was given the first
\* exchange as history and chat_history holds both.
C14_Witness ==
    /\ ~sessions["B"].started
    /\ ui_event.kind = "submit" /\ ui_event.session = "A" /\ calls = 2
    /\ Len(sessions["A"].messages) = 2
    /\ Len(call.passed) = 2
    /\ call.passed[1].type = "HumanMessage" /\ call.passed[2].type = "AIMessage"
    /\ Len(chat_history) = 4

(***************************************************************************)
(* Claims about two sessions in one process                                *)
(***************************************************************************)

\* Some two neighbouring entries of h have the same role.
SameRoleTwice(h) == \E i \in 1..(Len(h) - 1) : h[i][1] = h[i + 1][1]

\* C16: the conversation history is one process-wide list shared by all UI
\* sessions, while the message list is per session: whatever entries the list
\* holds when a session's request is formatted, whichever session recorded
\* them, are the history passed to the executor for that request, and a
\* session's messages change only in steps of that session's own script.
\* (That interleaved chat() calls can leave two consecutive entries of the
\* same role is a reachable state: C16_Witness.)
C16_HistorySharedMessagesNot ==
    [][\A s \in Sessions :
        /\ (threads[s].pc = "format" /\ threads'[s].pc = "invoke") =>
                /\ threads'[s].passed = FormatHistory(chat_history)
                /\ Len(threads'[s].passed) = Len(chat_history)
                /\ \A i \in 1..Len(chat_history) :
                        threads'[s].passed[i].content = chat_history[i][2]
        /\ sessions'[s].messages # sessions[s].messages =>
                /\ threads'[s].pc # threads[s].pc
                /\ \A o \in Sessions \ {s} : sessions'[o] = sessions[o]]_vars

\* From an empty list, session A asked and was answered; then B's first
\* request was given A's exchange as history, and A's second request and B's
\* first recorded their entries in turns: human, assistant, human, human,
\* assistant, assistant.
C16_Witness ==
    /\ Len(chat_history) = 6
    /\ \A i \in 1..6 :
            chat_history[i] = IF i \in {1, 3, 4}
                              THEN <<"human", PyStr(<<"h", "i">>)>>
                              ELSE <<"assistant", Plan>>
    /\ SameRoleTwice(chat_history)
    /\ Len(sessions["A"].messages) = 4
    /\ Len(sessions["B"].messages) = 2
    /\ threads["B"].pc = "return"
    /\ threads["B"].passed =
            <<[type |-> "HumanMessage", content |-> PyStr(<<"h", "i">>)],
              [type |-> "AIMessage", content |-> Plan]>>
    /\ sessions["B"].messages[2].content = ThinkingPlaceholder

=============================================================================
